---- MODULE Spec2Model ----
(***************************************************************************)
(* Model of the REPL session of internal/repl/repl.go: Session.Eval and    *)
(* the classifier (separateEvalStmt, evalExpr, evalStmt), the cleanup pass *)
(* (cleanEvalStmt), the checkpoint (storeMainBody / restoreMainBody) and   *)
(* the registration of auxiliary files (importFile).                       *)
(*                                                                         *)
(* A fragment is a sequence of source lines.  The lines are taken from a   *)
(* small alphabet of Go lines; what go/parser and the strings package      *)
(* answer about a line is tabulated per line below.  The external build    *)
(* tool ("go run") is the environment: its result is chosen freely.        *)
(***************************************************************************)
EXTENDS Integers, Sequences, FiniteSets, TLC

\* ------------------------------------------------------------------ bounds
\* longest fragment, in lines
MaxLines == 2
\* an Eval is started only on a body of fewer than MaxBody statements
MaxBody == 2
\* ... and only while fewer than MaxExtra auxiliary files are registered
MaxExtra == 1

\* ------------------------------------------------------------ the alphabet
printerName == "__gophernotes"
ErrContinue == "<continue input>"
ErrQuit == "<quit session>"

\* the error of a failed goimports run (errors.New of its output)
ErrGoimports == "goimports: syntax error"
\* the error Eval makes of non-empty stderr
ErrUnexpectedStderr == "Unexpected stderr from execution"
NoErr == "nil"

\* lines parser.ParseExpr accepts
ExprLines == {"x", "f()"}
\* a string literal, an expression as well
LiteralLines == {"\"s\""}
\* simple statements that are assignments or short variable declarations
AssignLines == {"x := 5"}
\* an assignment of a composite literal: a one-line statement ending in "}"
CompositeLines == {"p := T{1}"}
\* a line opening a block, a line closing one
OpenLines == {"if x {"}
CloseLines == {"}"}
\* a complete top-level function declaration on one line
DeclLines == {"func h() {}"}
\* text no grammar production accepts
JunkLines == {"func bad("}
BlankLines == {""}
\* an import line: Eval hands it to the import command, not to the classifier
ImportLines == {"import \"fmt\""}
\* the line closing a parenthesised import block
ParenLines == {")"}
\* the line opening a parenthesised import block
BlockOpenLines == {"import ("}
\* the lines Eval takes out of the fragment at repl.go 330: those starting
\* with "import", ":" or ")" and those whose trimmed text starts with a
\* double quote
SpecialLines == ImportLines \cup ParenLines \cup LiteralLines
\* top-level declarations of an included file: a function, the entry point,
\* a type and a method named main
FileDeclLines == DeclLines \cup {"func main() {}", "type T int", "func (T) main() {}"}

\* the lines fragments are made of
Lines == ExprLines \cup AssignLines \cup OpenLines \cup CloseLines
           \cup DeclLines \cup JunkLines \cup BlankLines

\* the left-hand sides of an assignment line (ast.AssignStmt.Lhs)
Lhs(line) == IF line = "x := 5" THEN <<"x">>
             ELSE IF line = "p := T{1}" THEN <<"p">> ELSE <<>>

\* strings.LastIndex(line, "{") == len(line)-1: the last character is "{",
\* or the line is empty (LastIndex is -1 and so is len(line)-1)
LastIsOpen(line) == line \in OpenLines \cup BlankLines

\* strings.LastIndex(line, "}") == len(line)-1
LastIsClose(line) ==
  line \in CloseLines \cup DeclLines \cup BlankLines \cup CompositeLines

\* strings.HasSuffix(line, "{}")
HasSuffixEmptyBlock(line) == line \in DeclLines

\* strings.HasPrefix(line, "import") || HasPrefix(line, ":") ||
\* HasPrefix(trimLine, "\"") || HasPrefix(line, ")")
IsSpecialLine(line) == line \in SpecialLines \cup BlockOpenLines

\* the names of the entries of the commands table: it holds the import
\* command repl.go 345 names
commands == {"import"}

\* repl.go 343-350 for one line and one command: the argument left after
\* the command's prefix differs from the line and, trimmed, starts with "("
OpensArgBlock(line, name) == name = "import" /\ line \in BlockOpenLines

\* strings.Contains(line, ")")
ContainsCloseParen(line) ==
  line \in ParenLines \cup {"f()"} \cup (FileDeclLines \ {"type T int"})

\* repl.go 350-356: the scan of the argument block that opens at line idx.
\* Every index it reads is recorded; reading inLines past its last line is
\* an index out of range, a run-time panic.
RECURSIVE blockScan(_, _, _, _)
blockScan(inLines, idx, advance, acc) ==
  LET k == idx + advance IN
  IF k > Len(inLines)
  THEN [acc EXCEPT !.reads = Append(@, k), !.panic = TRUE]
  ELSE IF ContainsCloseParen(inLines[k])
  THEN [acc EXCEPT !.reads = Append(@, k)]
  ELSE blockScan(inLines, idx, advance + 1,
                 [acc EXCEPT !.reads = Append(@, k),
                             !.args = Append(@, inLines[k])])

\* repl.go 326-375: the loop over the lines of the fragment from line idx
\* on, for what the block scans read; it ends at the first panic.
RECURSIVE commandLoop(_, _, _)
commandLoop(inLines, idx, reads) ==
  IF idx > Len(inLines)
  THEN [reads |-> reads, panic |-> FALSE]
  ELSE IF IsSpecialLine(inLines[idx])
          /\ \E name \in commands : OpensArgBlock(inLines[idx], name)
  THEN LET r == blockScan(inLines, idx, 1,
                          [reads |-> reads, args |-> <<>>, panic |-> FALSE])
       IN IF r.panic THEN [reads |-> r.reads, panic |-> TRUE]
          ELSE commandLoop(inLines, idx + 1, r.reads)
  ELSE commandLoop(inLines, idx + 1, reads)

\* ------------------------------------------------------------------ nodes
\* A node of the entry point's body: kind and text (the source lines of a
\* statement, or the arguments of a printer call).
Node(kind, text) == [kind |-> kind, text |-> text]

PrintNode(args) == Node("print", args)

\* isNamedIdent(expr, name)
isNamedIdent(expr, name) == expr = name

\* Session.isPureExpr on the expression of an expression line: an
\* identifier is pure, a call of a user function is not.
isPureExpr(line) == line \in {"x"} \cup LiteralLines

\* strings.Join(lines, "\n") followed by strings.Split(_, "\n"): a text is
\* kept as the sequence of its lines; the empty text splits into one empty
\* line.
Join(lines) == IF lines = <<>> THEN <<"">> ELSE lines

\* a test that finds no text empty
IsEmptyTextNever(text) == FALSE

\* len(in) == 0
IsEmptyText(text) == text = <<"">>

\* -------------------------------------------------------------- go/parser
\* parser.ParseExpr(line) succeeds
ParseExprOK(line) == line \in ExprLines \cup LiteralLines

\* The statement a single line makes inside a function body.
SimpleStmt(line) ==
  IF line \in AssignLines \cup CompositeLines THEN Node("assign", <<line>>)
  ELSE Node("expr", <<line>>)

\* parser.ParseFile of "package P; func F() { <text> }": the statement list
\* of F, or failure.  depth is the number of blocks open, cur the lines of
\* the outermost open block, out the statements parsed so far.
RECURSIVE ParseStmtsFrom(_, _, _, _, _)
ParseStmtsFrom(text, i, depth, cur, out) ==
  IF i > Len(text)
  THEN [ok |-> depth = 0, stmts |-> out]
  ELSE LET line == text[i] IN
    CASE line \in FileDeclLines \cup JunkLines \cup ImportLines
                  \cup ParenLines \cup BlockOpenLines ->
           [ok |-> FALSE, stmts |-> out]
      [] line \in BlankLines ->
           ParseStmtsFrom(text, i + 1, depth, cur, out)
      [] line \in OpenLines ->
           ParseStmtsFrom(text, i + 1, depth + 1, Append(cur, line), out)
      [] line \in CloseLines ->
           IF depth = 0 THEN [ok |-> FALSE, stmts |-> out]
           ELSE IF depth = 1
           THEN ParseStmtsFrom(text, i + 1, 0, <<>>,
                               Append(out, Node("block", Append(cur, line))))
           ELSE ParseStmtsFrom(text, i + 1, depth - 1, Append(cur, line), out)
      [] OTHER ->
           IF depth = 0
           THEN ParseStmtsFrom(text, i + 1, 0, cur, Append(out, SimpleStmt(line)))
           ELSE ParseStmtsFrom(text, i + 1, depth, Append(cur, line), out)

ParseStmts(text) == ParseStmtsFrom(text, 1, 0, <<>>, <<>>)

\* The statements of F in the partial tree parser.ParseFile returns with a
\* syntax error: what it recovered of the text, as one bad node.
PartialStmts(text) == <<Node("bad", text)>>

\* "package main" followed by the text parses as a file: every line is a
\* complete top-level declaration or blank.
TopLevelOK(text) ==
  \A i \in 1..Len(text) : text[i] \in FileDeclLines \cup BlankLines

\* ---------------------------------------------------------------- Session
\* The session fields the operations below change:
\* [body (mainBody.List), paths (ExtraFilePaths), files (ExtraFiles)].

appendStatements(s, stmts) == [s EXCEPT !.body = @ \o stmts]

\* evalExpr appending the bare expression statement instead of the printer
\* call on it
evalExprUnwrapped(s, line) ==
  IF ParseExprOK(line)
  THEN [s |-> appendStatements(s, <<Node("expr", <<line>>)>>), err |-> NoErr]
  ELSE [s |-> s, err |-> "parse error"]

\* Session.evalExpr: on a successful parse, append the printer call on the
\* expression.
evalExpr(s, line) ==
  IF ParseExprOK(line)
  THEN [s |-> appendStatements(s, <<PrintNode(<<line>>)>>), err |-> NoErr]
  ELSE [s |-> s, err |-> "parse error"]

\* tmp.Name() + ".go" for the n-th file ioutil.TempFile makes with the
\* prefix "gore_extarnal_": a name no other file has
TempName(n) == <<"gore_extarnal_", n>>

\* A source file is [pkg, text]: the name of its package clause and the
\* lines after it.  A parsed file (ast.File) is [name, decls].

\* decl.(*ast.FuncDecl) succeeds: the declaration is a function or a method
IsFuncDecl(line) ==
  line \in {"func h() {}", "func main() {}", "func (T) main() {}"}

\* the name a declaration declares (FuncDecl.Name for functions and methods)
DeclName(line) ==
  CASE line = "func h() {}" -> "h"
    [] line = "func main() {}" -> "main"
    [] line = "func (T) main() {}" -> "main"
    [] line = "type T int" -> "T"
    [] OTHER -> ""

\* FuncDecl.Recv != nil: the declaration is a method
HasRecv(line) == line = "func (T) main() {}"

\* ast.File.Decls of a parsed text: one declaration per non-blank line
Decls(text) == SelectSeq(text, LAMBDA l : l \notin BlankLines)

\* repl.go 587-596: the index of the first declaration that is a FuncDecl
\* with the name main, or 0
FirstMain(decls) ==
  LET hits == {i \in 1..Len(decls) :
                 IsFuncDecl(decls[i]) /\ isNamedIdent(DeclName(decls[i]), "main")}
  IN IF hits = {} THEN 0 ELSE CHOOSE i \in hits : \A j \in hits : i <= j

\* append(f.Decls[0:i], f.Decls[i+1:]...) for the 1-based index i
RemoveAt(decls, i) ==
  [k \in 1..(Len(decls) - 1) |-> IF k < i THEN decls[k] ELSE decls[k + 1]]

\* importFile registering a unit once: a source whose unit is registered
\* already adds nothing
importFileOnce(s, src, ioOK) ==
  IF ~ioOK
  THEN [s |-> s, err |-> "io error"]
  ELSE IF ~TopLevelOK(src.text)
  THEN [s |-> s, err |-> "scanner.ErrorList"]
  ELSE LET decls == Decls(src.text)
           i == FirstMain(decls)
           unit == [name |-> "main",
                    decls |-> IF i = 0 THEN decls ELSE RemoveAt(decls, i)]
       IN IF \E k \in 1..Len(s.files) : s.files[k] = unit
          THEN [s |-> s, err |-> NoErr]
          ELSE [s |-> [s EXCEPT !.paths = Append(@, TempName(Len(@) + 1)),
                                !.files = Append(@, unit)],
                err |-> NoErr]

\* Session.importFile: make a temporary file, parse the source as a file,
\* rename its package main, take the first FuncDecl named main out, write
\* the result and register it under the temporary name.  ioOK says that
\* ioutil.TempFile, os.Create and printer.Fprint succeed.
importFile(s, src, ioOK) ==
  IF ~ioOK
  THEN [s |-> s, err |-> "io error"]
  ELSE IF ~TopLevelOK(src.text)
  THEN [s |-> s, err |-> "scanner.ErrorList"]
  ELSE LET decls == Decls(src.text)
           i == FirstMain(decls)
           unit == [name |-> "main",
                    decls |-> IF i = 0 THEN decls ELSE RemoveAt(decls, i)]
       IN [s |-> [s EXCEPT !.paths = Append(@, TempName(Len(@) + 1)),
                           !.files = Append(@, unit)],
           err |-> NoErr]

\* The names a printer call after an assignment lists: the left-hand sides
\* other than "_".
RECURSIVE PrintedNames(_)
PrintedNames(lhs) ==
  IF lhs = <<>> THEN <<>>
  ELSE IF isNamedIdent(Head(lhs), "_") THEN PrintedNames(Tail(lhs))
  ELSE <<Head(lhs)>> \o PrintedNames(Tail(lhs))

\* repl.go 230-255: the statements with the printer call on the names the
\* last statement assigns, unless noPrint.
WithLastValues(stmts, noPrint) ==
  IF stmts = <<>> \/ noPrint THEN stmts
  ELSE LET lastStmt == stmts[Len(stmts)]
           vs == IF lastStmt.kind = "assign"
                 THEN PrintedNames(Lhs(lastStmt.text[1])) ELSE <<>>
       IN IF vs # <<>> THEN Append(stmts, PrintNode(vs)) ELSE stmts

\* Session.evalStmt.  When the text does not parse as a statement list it is
\* written to func_proxy.go and run through goimports; a goimports failure
\* is returned, otherwise the file is registered by importFile and the
\* statements of the partial tree are appended all the same.  The files of
\* the fallback are taken to be writable.
evalStmt(s, text, noPrint) ==
  LET parsed == ParseStmts(text) IN
  IF parsed.ok
  THEN [s |-> appendStatements(s, WithLastValues(parsed.stmts, noPrint)),
        err |-> NoErr]
  ELSE IF ~TopLevelOK(text)
  THEN [s |-> s, err |-> ErrGoimports]
  ELSE LET imp == importFile(s, [pkg |-> "main", text |-> text], TRUE) IN
       IF imp.err = "scanner.ErrorList"
       THEN [s |-> imp.s, err |-> ErrContinue]
       ELSE [s |-> appendStatements(imp.s,
                       WithLastValues(PartialStmts(text), noPrint)),
             err |-> NoErr]

\* Session.separateEvalStmt, from line i on.  st holds the session fields,
\* the local variables stmtLines, exprCount and bracketCount, parsedAt:
\* the value of bracketCount at each call of evalStmt, and depths: the value
\* of bracketCount after each line, and tried: whether evalExpr was called
\* on each line.
RECURSIVE separateFrom(_, _, _)
separateFrom(st, inLines, i) ==
  IF i > Len(inLines)
  THEN IF st.stmtLines # <<>>
       THEN LET noPrint == st.exprCount > 0
                r == evalStmt(st.s, Join(st.stmtLines), noPrint)
            IN [st EXCEPT !.s = r.s, !.err = r.err,
                          !.parsedAt = Append(@, st.bracketCount)]
       ELSE st
  ELSE LET line == inLines[i]
           tryExpr == st.bracketCount = 0 /\ st.stmtLines = <<>>
           e == evalExpr(st.s, line)
       IN IF tryExpr /\ e.err = NoErr
          THEN separateFrom([st EXCEPT !.s = e.s,
                                       !.depths = Append(@, st.bracketCount),
                                       !.tried = Append(@, TRUE)],
                            inLines, i + 1)
          ELSE LET b1 == IF tryExpr /\ LastIsOpen(line)
                         THEN st.bracketCount + 1 ELSE st.bracketCount
                   b2 == IF LastIsClose(line) /\ ~HasSuffixEmptyBlock(line)
                         THEN b1 - 1 ELSE b1
                   b3 == IF LastIsOpen(line) THEN b2 + 1 ELSE b2
                   lines == Append(st.stmtLines, line)
               IN IF b3 = 0
                  THEN LET r == evalStmt(st.s, Join(lines), TRUE) IN
                       IF r.err # NoErr
                       THEN [st EXCEPT !.s = r.s, !.err = r.err,
                                       !.stmtLines = lines,
                                       !.bracketCount = b3,
                                       !.parsedAt = Append(@, b3),
                                       !.depths = Append(@, b3),
                                       !.tried = Append(@, tryExpr)]
                       ELSE separateFrom(
                              [st EXCEPT !.s = r.s, !.stmtLines = <<>>,
                                         !.bracketCount = b3,
                                         !.parsedAt = Append(@, b3),
                                         !.depths = Append(@, b3),
                                         !.tried = Append(@, tryExpr)],
                              inLines, i + 1)
                  ELSE separateFrom(
                         [st EXCEPT !.stmtLines = lines,
                                    !.bracketCount = b3,
                                    !.exprCount = @ + 1,
                                    !.depths = Append(@, b3),
                                    !.tried = Append(@, tryExpr)],
                         inLines, i + 1)

separateEvalStmt(s, in) ==
  separateFrom([s |-> s, err |-> NoErr, stmtLines |-> <<>>, exprCount |-> 0,
                bracketCount |-> 0, parsedAt |-> <<>>, depths |-> <<>>,
                tried |-> <<>>], in, 1)

\* Session.cleanEvalStmt, from line i on: the printer call of a pure
\* expression line stays, every other line is collected and parsed as one
\* statement block without printing.
RECURSIVE cleanFrom(_, _, _, _)
cleanFrom(s, stmtLines, inLines, i) ==
  IF i > Len(inLines)
  THEN IF stmtLines # <<>>
       THEN evalStmt(s, Join(stmtLines), TRUE)
       ELSE [s |-> s, err |-> NoErr]
  ELSE LET line == inLines[i]
           e == evalExpr(s, line)
       IN IF e.err = NoErr
          THEN IF ~isPureExpr(line)
               THEN cleanFrom(s, Append(stmtLines, line), inLines, i + 1)
               ELSE cleanFrom(e.s, stmtLines, inLines, i + 1)
          ELSE cleanFrom(s, Append(stmtLines, line), inLines, i + 1)

cleanEvalStmt(s, in) == cleanFrom(s, <<>>, in, 1)

\* Session.clearQuickFix and Session.doQuickFix reconcile the imports and
\* re-parse the file; the statement list of the entry point is the same
\* sequence of nodes afterwards.
clearQuickFix(list) == list
doQuickFix(list) == list

\* Session.restoreMainBody
restoreMainBody(list, stored) == SubSeq(list, 1, stored)

\* ------------------------------------------------------------ environment
\* What "go run" answers: the error of cmd.Output (nil, an *exec.ExitError
\* with its exit status, or a failure to start) and the captured stderr.
ExitErrors == {"exit status 1", "exit status 2"}
ErrLaunch == "exec: failed to start"
RunResults ==
  [err : {NoErr} \cup ExitErrors, stderr : {"", "stderr text"}]
    \cup {[err |-> ErrLaunch, stderr |-> ""]}

\* exitErr.ProcessState.Sys().(syscall.WaitStatus).ExitStatus()
ExitStatus(err) == IF err = "exit status 2" THEN 2
                   ELSE IF err = "exit status 1" THEN 1 ELSE 0

\* the fragments a caller submits: one to MaxLines lines
Fragments == UNION {[1..n -> Lines] : n \in 1..MaxLines}

\* s.FilePath: the session file
FilePath == <<"gore_session.go", 0>>

\* Run handing the session file alone to goRun
RunFilesSessionOnly(paths) == <<FilePath>>

\* repl.go 126: append(s.ExtraFilePaths, s.FilePath), the files of "go run"
RunFiles(paths) == Append(paths, FilePath)

\* Eval going on to Run whatever the classifier returned
ClassifyNeverReturns(err) == FALSE

\* repl.go 387: Eval returns when separateEvalStmt returned an error
ClassifyReturns(err) == err # NoErr

\* ------------------------------------------------------------------ state
VARIABLES
  body,              \* s.mainBody.List
  storedBodyLength,  \* s.storedBodyLength
  ExtraFilePaths,    \* s.ExtraFilePaths
  ExtraFiles,        \* s.ExtraFiles
  pc,                \* where Eval stands: "idle" (not called), "run",
                     \* "cleanup", "return" (at a return statement);
                     \* "included": includeFile is about to return;
                     \* "panic": Eval ended in a run-time panic
  in,                \* Eval's in after the special lines are taken out
  priorListLength,   \* Eval's priorListLength
  classified,        \* what separateEvalStmt left: bracketCount, parsedAt
  ran,               \* what Run returned to this Eval (NoRun before it ran)
  runErr,            \* Eval's runErr
  ret,               \* what Eval returns: [stderr, err]
  bodyBefore,        \* the body when this Eval was entered
  inLines,           \* Eval's inLines: the lines of the fragment as given
  runCalls,          \* the file lists this Eval handed to goRun, in order
  writes,            \* how often this Eval wrote the session file
  filesBefore,       \* ExtraFiles when this Eval or includeFile was entered
  included,          \* the includeFile under way: its source and outcome
  scanned            \* the indices of inLines this Eval's block scans read

vars == <<body, storedBodyLength, ExtraFilePaths, ExtraFiles, pc, in,
          priorListLength, classified, ran, runErr, ret, bodyBefore,
          inLines, runCalls, writes, filesBefore, included, scanned>>

NoRun == [err |-> "not run", stderr |-> ""]
NoClass == [bracketCount |-> 0, parsedAt |-> <<>>, err |-> NoErr,
            depths |-> <<>>, tried |-> <<>>]
NoInclude == [src |-> [pkg |-> "", text |-> <<>>], err |-> NoErr,
              imported |-> FALSE]

Fields == [body |-> body, paths |-> ExtraFilePaths, files |-> ExtraFiles]

\* NewSession: the entry point of the template is empty, nothing included.
Init ==
  /\ body = <<>>
  /\ storedBodyLength = 0
  /\ ExtraFilePaths = <<>>
  /\ ExtraFiles = <<>>
  /\ pc = "idle"
  /\ in = <<"">>
  /\ priorListLength = 0
  /\ classified = NoClass
  /\ ran = NoRun
  /\ runErr = NoErr
  /\ ret = [stderr |-> "", err |-> NoErr]
  /\ bodyBefore = <<>>
  /\ inLines = <<>>
  /\ runCalls = <<>>
  /\ writes = 0
  /\ filesBefore = <<>>
  /\ included = NoInclude
  /\ scanned = <<>>

\* The lines of the fragment Eval keeps for the classifier (repl.go 326-333).
nonImportLines(frag) == SelectSeq(frag, LAMBDA l : ~IsSpecialLine(l))

\* Eval, repl.go 317-383, for a fragment with nothing to evaluate: the
\* checkpoint is taken, the special lines go to their commands, Eval returns.
EvalNothing(frag) ==
  /\ pc = "idle"
  /\ Len(body) < MaxBody
  /\ Len(ExtraFiles) < MaxExtra
  /\ ~commandLoop(frag, 1, <<>>).panic
  /\ IsEmptyText(Join(nonImportLines(frag)))
  /\ scanned' = commandLoop(frag, 1, <<>>).reads
  /\ bodyBefore' = body
  /\ body' = doQuickFix(clearQuickFix(body))
  /\ storedBodyLength' = Len(clearQuickFix(body))
  /\ in' = Join(nonImportLines(frag))
  /\ classified' = NoClass
  /\ ran' = NoRun
  /\ runErr' = NoErr
  /\ ret' = [stderr |-> "", err |-> NoErr]
  /\ pc' = "return"
  /\ inLines' = frag
  /\ runCalls' = <<>>
  /\ writes' = 0
  /\ filesBefore' = ExtraFiles
  /\ UNCHANGED <<ExtraFilePaths, ExtraFiles, priorListLength, included>>

\* Eval, repl.go 317-389: checkpoint, special lines, classification.  A
\* classification error is returned at once.
EvalClassify(frag) ==
  /\ pc = "idle"
  /\ Len(body) < MaxBody
  /\ Len(ExtraFiles) < MaxExtra
  /\ ~commandLoop(frag, 1, <<>>).panic
  /\ ~IsEmptyText(Join(nonImportLines(frag)))
  /\ scanned' = commandLoop(frag, 1, <<>>).reads
  /\ LET cleared == clearQuickFix(body)
         text == Join(nonImportLines(frag))
         r == separateEvalStmt([Fields EXCEPT !.body = cleared], text)
     IN /\ bodyBefore' = body
        /\ storedBodyLength' = Len(cleared)
        /\ in' = text
        /\ priorListLength' = Len(cleared)
        /\ body' = r.s.body
        /\ ExtraFilePaths' = r.s.paths
        /\ ExtraFiles' = r.s.files
        /\ classified' = [bracketCount |-> r.bracketCount,
                          parsedAt |-> r.parsedAt, err |-> r.err,
                          depths |-> r.depths, tried |-> r.tried]
        /\ ran' = NoRun
        /\ runErr' = NoErr
        /\ inLines' = frag
        /\ runCalls' = <<>>
        /\ writes' = 0
        /\ filesBefore' = ExtraFiles
        /\ included' = included
        /\ IF ClassifyReturns(r.err)
           THEN /\ ret' = [stderr |-> r.err, err |-> r.err]
                /\ pc' = "return"
           ELSE /\ ret' = ret
                /\ pc' = "run"

\* Eval, repl.go 391-405: the imports are reconciled, the program is run
\* (Run writes the session file and calls goRun once), and after exit
\* status 2 the body is cut back to the checkpoint.
EvalRun(res) ==
  /\ pc = "run"
  /\ ran' = res
  /\ writes' = writes + 1
  /\ runCalls' = Append(runCalls, RunFiles(ExtraFilePaths))
  /\ IF (res.err # NoErr \/ res.stderr # "")
        /\ res.err \in ExitErrors /\ ExitStatus(res.err) = 2
     THEN /\ body' = restoreMainBody(doQuickFix(body), storedBodyLength)
          /\ runErr' = NoErr
     ELSE /\ body' = doQuickFix(body)
          /\ runErr' = res.err
  /\ pc' = "cleanup"
  /\ UNCHANGED <<storedBodyLength, ExtraFilePaths, ExtraFiles, in,
                 priorListLength, classified, ret, bodyBefore, inLines,
                 filesBefore, included, scanned>>

\* Eval without the check of repl.go 422-424
FinalErrUnchecked(stderr, err) == err

\* The error Eval returns at repl.go 421-426.
FinalErr(stderr, err) == IF stderr # "" THEN ErrUnexpectedStderr ELSE err

\* Eval, repl.go 407-427: the body is cut to priorListLength, the fragment
\* goes through cleanEvalStmt, the session file is written and Eval returns
\* (an error of cleanEvalStmt is returned before the file is written).
EvalCleanup ==
  /\ pc = "cleanup"
  /\ LET cut == SubSeq(body, 1, priorListLength)
         c == cleanEvalStmt([Fields EXCEPT !.body = cut], in)
     IN /\ body' = c.s.body
        /\ ExtraFilePaths' = c.s.paths
        /\ ExtraFiles' = c.s.files
        /\ ret' = IF c.err # NoErr
                  THEN [stderr |-> ran.stderr, err |-> c.err]
                  ELSE [stderr |-> ran.stderr,
                        err |-> FinalErr(ran.stderr, runErr)]
        /\ writes' = IF c.err # NoErr THEN writes ELSE writes + 1
  /\ pc' = "return"
  /\ UNCHANGED <<storedBodyLength, in, priorListLength, classified, ran,
                 runErr, bodyBefore, inLines, runCalls, filesBefore,
                 included, scanned>>

\* Eval returns: its local variables are gone, the session keeps its fields.
EvalReturn ==
  /\ pc = "return"
  /\ pc' = "idle"
  /\ in' = <<"">>
  /\ priorListLength' = 0
  /\ classified' = NoClass
  /\ ran' = NoRun
  /\ runErr' = NoErr
  /\ ret' = [stderr |-> "", err |-> NoErr]
  /\ bodyBefore' = <<>>
  /\ inLines' = <<>>
  /\ runCalls' = <<>>
  /\ writes' = 0
  /\ filesBefore' = <<>>
  /\ scanned' = <<>>
  /\ UNCHANGED <<body, storedBodyLength, ExtraFilePaths, ExtraFiles,
                 included>>

Next ==
  \/ \E frag \in Fragments : EvalNothing(frag)
  \/ \E frag \in Fragments : EvalClassify(frag)
  \/ \E res \in RunResults : EvalRun(res)
  \/ EvalCleanup
  \/ EvalReturn

Spec == Init /\ [][Next]_vars

\* ------------------------------------------------- fragments with imports
\* Fragments that mix lines to evaluate with the lines Eval takes out: an
\* import, a string literal, a closing parenthesis.  The import command
\* changes the imports of the session file only, which are not part of the
\* state here; no command matches the other two lines (repl.go 343-350).
LinesWithSpecial ==
  {"x"} \cup CompositeLines \cup BlankLines \cup SpecialLines

SpecialFragments == UNION {[1..n -> LinesWithSpecial] : n \in 1..MaxLines}

NextSpecial ==
  \/ \E frag \in SpecialFragments : EvalNothing(frag)
  \/ \E frag \in SpecialFragments : EvalClassify(frag)
  \/ \E res \in RunResults : EvalRun(res)
  \/ EvalCleanup
  \/ EvalReturn

SpecSpecial == Init /\ [][NextSpecial]_vars

\* ------------------------------------------- fragments with import blocks
\* Eval, repl.go 317-356, for a fragment in which the scan of an argument
\* block reads past the last line: the checkpoint is taken, the lines
\* before the block are dealt with, and the index expression panics.
EvalPanic(frag) ==
  /\ pc = "idle"
  /\ Len(body) < MaxBody
  /\ Len(ExtraFiles) < MaxExtra
  /\ commandLoop(frag, 1, <<>>).panic
  /\ scanned' = commandLoop(frag, 1, <<>>).reads
  /\ inLines' = frag
  /\ bodyBefore' = body
  /\ filesBefore' = ExtraFiles
  /\ body' = clearQuickFix(body)
  /\ storedBodyLength' = Len(clearQuickFix(body))
  /\ pc' = "panic"
  /\ UNCHANGED <<ExtraFilePaths, ExtraFiles, in, priorListLength, classified,
                 ran, runErr, ret, runCalls, writes, included>>

\* Fragments made of the lines of a parenthesised import block, "import (",
\* a quoted path and ")", and of an expression.
BlockLines == BlockOpenLines \cup LiteralLines \cup ParenLines \cup {"x"}

BlockFragments == UNION {[1..n -> BlockLines] : n \in 1..MaxLines}

NextBlock ==
  \/ \E frag \in BlockFragments : EvalPanic(frag)
  \/ \E frag \in BlockFragments : EvalNothing(frag)
  \/ \E frag \in BlockFragments : EvalClassify(frag)
  \/ \E res \in RunResults : EvalRun(res)
  \/ EvalCleanup
  \/ EvalReturn

SpecBlock == Init /\ [][NextBlock]_vars

\* ---------------------------------------------------------- includeFile
\* The source files a caller includes: a helper, a program with its entry
\* point, a type with a method named main, the two together, and a file
\* that does not parse.
IncludeSources ==
  { [pkg |-> "helper", text |-> <<"func h() {}">>],
    [pkg |-> "helper", text |-> <<"func main() {}", "func h() {}">>],
    [pkg |-> "helper", text |-> <<"type T int", "func (T) main() {}">>],
    [pkg |-> "helper",
     text |-> <<"type T int", "func (T) main() {}", "func main() {}">>],
    [pkg |-> "helper", text |-> <<"func bad(">>] }

\* Session.includeFile, repl.go 531-548: importPackages parses the content
\* and returns on a syntax error; otherwise importFile registers it.  Both
\* errors are logged only.
IncludeFile(src, ioOK) ==
  /\ pc = "idle"
  /\ Len(ExtraFiles) <= MaxExtra
  /\ LET parsed == TopLevelOK(src.text)
         r == IF parsed THEN importFile(Fields, src, ioOK)
              ELSE [s |-> Fields, err |-> "scanner.ErrorList"]
     IN /\ ExtraFilePaths' = r.s.paths
        /\ ExtraFiles' = r.s.files
        /\ included' = [src |-> src, err |-> r.err, imported |-> parsed]
  /\ filesBefore' = ExtraFiles
  /\ pc' = "included"
  /\ UNCHANGED <<body, storedBodyLength, in, priorListLength, classified,
                 ran, runErr, ret, bodyBefore, inLines, runCalls, writes,
                 scanned>>

\* includeFile returns.
IncludeReturn ==
  /\ pc = "included"
  /\ pc' = "idle"
  /\ included' = NoInclude
  /\ filesBefore' = <<>>
  /\ UNCHANGED <<body, storedBodyLength, ExtraFilePaths, ExtraFiles, in,
                 priorListLength, classified, ran, runErr, ret, bodyBefore,
                 inLines, runCalls, writes, scanned>>

\* the fragments evaluated between inclusions
IncludeFragments == {<<"">>, <<"x">>, <<"f()">>, <<"func h() {}">>}

NextInclude ==
  \/ \E src \in IncludeSources, ioOK \in BOOLEAN : IncludeFile(src, ioOK)
  \/ IncludeReturn
  \/ \E frag \in IncludeFragments : EvalNothing(frag)
  \/ \E frag \in IncludeFragments : EvalClassify(frag)
  \/ \E res \in RunResults : EvalRun(res)
  \/ EvalCleanup
  \/ EvalReturn

SpecInclude == Init /\ [][NextInclude]_vars

\* ----------------------------------------------------------------- claims
\* Eval stands at a return statement after the program was run.
Returned == pc = "return" /\ ran # NoRun

\* The run ended with the "did not compile" exit status.
DidNotCompile == ran.err \in ExitErrors /\ ExitStatus(ran.err) = 2

\* The run succeeded, cleanly.
RanClean == ran.err = NoErr /\ ran.stderr = ""

\* The run ended in a fatal run error: a non-zero exit status other than 2,
\* or stderr output without exit status 2.
FatalRun ==
  \/ ran.err \in ExitErrors /\ ExitStatus(ran.err) # 2
  \/ ran.stderr # "" /\ ~DidNotCompile

HasPrinterCall(list) == \E i \in 1..Len(list) : list[i].kind = "print"

\* C1: after an Eval whose run ended with exit status 2, the body has the
\* length and the node sequence it had before that Eval started.
C1_BodyRestoredAfterExit2 ==
  (Returned /\ DidNotCompile) => body = bodyBefore

\* C2: when the run fails with exit status 2, Eval returns a nil error,
\* whatever stderr holds.
C2_NoErrorAfterExit2 ==
  (Returned /\ DidNotCompile) => ret.err = NoErr

\* C3: when classification returns an error, the body on return from Eval
\* is the body of the checkpoint: no node appended during that Eval remains.
C3_BodyUnchangedAfterClassifyError ==
  (pc = "return" /\ classified.err # NoErr) => body = bodyBefore

\* C4: the body a successful evaluation commits holds no printer call, so a
\* later run does not print the values of earlier fragments again.
C4_NoPrinterCallCommitted ==
  (Returned /\ RanClean /\ ret.err = NoErr) => ~HasPrinterCall(body)

\* C5: evaluating the one-line fragment "x := 5" runs a program whose body
\* ends with the printer call on x.
C5_AssignmentEchoed ==
  (pc = "run" /\ in = <<"x := 5">>)
    => (body # <<>> /\ body[Len(body)] = PrintNode(<<"x">>))

\* The fragment has a line that opens a block.
OpensBlock(text) == \E i \in 1..Len(text) : text[i] \in OpenLines

\* C6: for a fragment with a block left open, the classifier attempts no
\* statement parse while the brace depth is not zero, and when the fragment
\* ends with brace depth above zero it yields ErrContinue.
C6_ContinueOnOpenBrace ==
  (pc \in {"run", "return"} /\ OpensBlock(in) /\ classified.bracketCount > 0)
    => /\ \A i \in 1..Len(classified.parsedAt) : classified.parsedAt[i] = 0
       /\ classified.err = ErrContinue

\* The fragment is one line that parses as an expression.
BareExpr == Len(in) = 1 /\ ParseExprOK(in[1])

\* C7, as claimed: a successful Eval of a bare expression, pure or not,
\* commits exactly one node more, the printer call on the expression.
C7_ExprCommitsPrinterCall ==
  (Returned /\ RanClean /\ ret.err = NoErr /\ BareExpr)
    => body = Append(bodyBefore, PrintNode(in))

\* C7, amended: a successful Eval of a bare expression commits exactly one
\* node more: the printer call on the expression when the expression is
\* pure, the expression statement without the printer call when it is not.
C7_ExprCommitsOneNode ==
  (Returned /\ RanClean /\ ret.err = NoErr /\ BareExpr)
    => body = Append(bodyBefore,
                     IF isPureExpr(in[1]) THEN PrintNode(in)
                     ELSE Node("expr", in))

\* A successful Eval of the call f() on a session that already holds a
\* statement has returned.
C7_Witness ==
  /\ Returned /\ RanClean /\ ret.err = NoErr
  /\ in = <<"f()">>
  /\ bodyBefore # <<>>
  /\ Len(body) = Len(bodyBefore) + 1

\* C8: after an Eval whose run ended in a fatal run error, the body equals
\* the body before that evaluation.
C8_BodyRestoredAfterFatalRun ==
  (Returned /\ FatalRun) => body = bodyBefore

\* C9: when the run exits with a non-zero status other than 2, or leaves
\* stderr output without status 2, Eval returns a non-nil error and the
\* captured stderr.
C9_FatalRunReported ==
  (Returned /\ FatalRun) => (ret.err # NoErr /\ ret.stderr = ran.stderr)

\* An Eval whose program exited with status 0 and wrote to stderr has
\* returned an error.
C9_Witness ==
  /\ Returned
  /\ ran = [err |-> NoErr, stderr |-> "stderr text"]
  /\ ret.err = ErrUnexpectedStderr

\* The fragment holds declarations only.
DeclOnly(text) ==
  /\ \A i \in 1..Len(text) : text[i] \in DeclLines \cup BlankLines
  /\ \E i \in 1..Len(text) : text[i] \in DeclLines

\* C10: a successfully committed evaluation leaves the body at least as long
\* as before, of equal length only for declaration-only input, and after a
\* rollback the length is the checkpoint recorded when the evaluation began.
C10_LengthMonotoneAndRestored ==
  /\ (Returned /\ RanClean /\ ret.err = NoErr) =>
       /\ Len(body) >= Len(bodyBefore)
       /\ Len(body) = Len(bodyBefore) => DeclOnly(in)
  /\ (Returned /\ DidNotCompile) => Len(body) = storedBodyLength

\* C11: in every Eval in which separateEvalStmt returns an error, the
\* build-and-run tool is not invoked and the session file is not rewritten.
C11_ClassifyErrorSkipsRun ==
  (pc = "return" /\ classified.err # NoErr) =>
    (runCalls = <<>> /\ ran = NoRun /\ writes = 0)

\* An Eval has returned the goimports error of its classification.
C11_Witness ==
  /\ pc = "return"
  /\ classified.err = ErrGoimports
  /\ ret.err = ErrGoimports
  /\ inLines # <<>>

\* How often x occurs in seq.
Count(seq, x) == Cardinality({i \in 1..Len(seq) : seq[i] = x})

\* C12: every Run hands to the build tool the session file exactly once and
\* the path of every auxiliary unit registered so far, each as often as it
\* was registered, and no other file.
C12_RunGetsSessionAndUnits ==
  pc = "cleanup" =>
    /\ runCalls # <<>>
    /\ LET call == runCalls[Len(runCalls)] IN
         /\ Count(call, FilePath) = 1
         /\ \A i \in 1..Len(ExtraFilePaths) :
              Count(call, ExtraFilePaths[i]) =
                Count(ExtraFilePaths, ExtraFilePaths[i])
         /\ \A i \in 1..Len(call) :
              \/ call[i] = FilePath
              \/ \E k \in 1..Len(ExtraFilePaths) : call[i] = ExtraFilePaths[k]

\* The program was run with an auxiliary unit registered.
C12_Witness ==
  /\ pc = "cleanup"
  /\ ExtraFilePaths # <<>>
  /\ Len(runCalls) = 1
  /\ Len(runCalls[1]) = Len(ExtraFilePaths) + 1

\* a is an initial part of b
IsPrefix(a, b) == Len(a) <= Len(b) /\ SubSeq(b, 1, Len(a)) = a

\* C13: the list of auxiliary units only grows: no step removes or replaces
\* a registered unit, a successful importFile appends exactly one entry to
\* both ExtraFilePaths and ExtraFiles, also for a source registered before,
\* and a failed importFile leaves both lists as they were.
C13_UnitsOnlyGrow ==
  [][ /\ IsPrefix(ExtraFilePaths, ExtraFilePaths')
      /\ IsPrefix(ExtraFiles, ExtraFiles')
      /\ (pc = "idle" /\ pc' = "included" /\ included'.imported) =>
           IF included'.err = NoErr
           THEN /\ Len(ExtraFilePaths') = Len(ExtraFilePaths) + 1
                /\ Len(ExtraFiles') = Len(ExtraFiles) + 1
           ELSE /\ ExtraFilePaths' = ExtraFilePaths
                /\ ExtraFiles' = ExtraFiles ]_vars

\* The same source was included twice and is registered as two units.
C13_Witness ==
  /\ pc = "included"
  /\ included.imported
  /\ included.err = NoErr
  /\ Len(ExtraFiles) = 2
  /\ Len(ExtraFilePaths) = 2
  /\ ExtraFiles[1] = ExtraFiles[2]
  /\ filesBefore = <<ExtraFiles[1]>>

\* strings.HasPrefix(line, "import") || strings.HasPrefix(line, ":"): the
\* line is an import or a meta-command
IsCommandLine(line) == line \in ImportLines

\* The fragment without its import and meta-command lines.
WithoutCommands(frag) == Join(SelectSeq(frag, LAMBDA l : ~IsCommandLine(l)))

\* C14: each Eval invokes the build-and-run tool at most once, and an Eval
\* whose fragment is empty once its import and meta-command lines are
\* removed does not invoke it.
C14_AtMostOneRun ==
  /\ Len(runCalls) <= 1
  /\ (pc = "return" /\ inLines # <<>> /\ WithoutCommands(inLines) = <<"">>)
       => runCalls = <<>>

\* An Eval of import lines only has returned without running anything.
C14_Witness ==
  /\ pc = "return"
  /\ inLines # <<>>
  /\ \A i \in 1..Len(inLines) : inLines[i] \in ImportLines
  /\ in = <<"">>
  /\ runCalls = <<>>
  /\ ret.err = NoErr

\* The last character of the line is "{".
EndsWithOpen(line) == line \in OpenLines

\* The last character of the line is "}" and the line does not end in "{}".
EndsWithClose(line) == line \in CloseLines \cup CompositeLines

\* The brace depth before line i of the fragment being classified.
DepthBefore(i) == IF i = 1 THEN 0 ELSE classified.depths[i - 1]

\* C15: the brace-depth counter goes up by exactly one at each line ending
\* with "{" and down by exactly one at each line ending with "}" (other than
\* "{}"); for a block whose first line opens a brace and whose last line
\* closes it the depth is back at zero at the closing line, the block is
\* parsed there, and the line after it is tried as an expression.
C15_DepthCountsEachBraceOnce ==
  (pc # "idle" /\ pc # "included") =>
    /\ \A i \in 1..Len(classified.depths) :
         /\ EndsWithOpen(in[i]) =>
              classified.depths[i] = DepthBefore(i) + 1
         /\ EndsWithClose(in[i]) =>
              classified.depths[i] = DepthBefore(i) - 1
    /\ \A i \in 1..(Len(classified.depths) - 1) :
         (DepthBefore(i) = 0 /\ EndsWithOpen(in[i]) /\ EndsWithClose(in[i + 1]))
           => /\ classified.depths[i + 1] = 0
              /\ \E k \in 1..Len(classified.parsedAt) :
                   classified.parsedAt[k] = 0
              /\ (i + 2 <= Len(classified.tried) => classified.tried[i + 2])

\* C16: every line of a fragment that is neither an import nor a
\* meta-command line is passed to the classifier, and each such line at the
\* top level is first tried as an expression; a string-literal line and a
\* line starting with ")" are evaluated, not dropped.
C16_OtherLinesReachClassifier ==
  (pc # "idle" /\ pc # "included") =>
    /\ in = WithoutCommands(inLines)
    /\ \A i \in 1..Len(inLines) :
         inLines[i] \in LiteralLines \cup ParenLines =>
           \E k \in 1..Len(in) : in[k] = inLines[i]
    /\ \A i \in 1..Len(classified.tried) :
         DepthBefore(i) = 0 => classified.tried[i]

\* The declaration is a top-level function (no receiver) named main.
IsEntryPoint(decl) ==
  IsFuncDecl(decl) /\ ~HasRecv(decl) /\ DeclName(decl) = "main"

\* C17: after importFile succeeds on a source file, the registered unit has
\* the package name main, holds no top-level function named main, and keeps
\* every other declaration of the file, a method named main included, in
\* the order of the file.
C17_UnitKeepsAllButEntryPoint ==
  (pc = "included" /\ included.imported /\ included.err = NoErr) =>
    LET unit == ExtraFiles[Len(ExtraFiles)] IN
      /\ unit.name = "main"
      /\ \A i \in 1..Len(unit.decls) : ~IsEntryPoint(unit.decls[i])
      /\ unit.decls = SelectSeq(Decls(included.src.text),
                                LAMBDA d : ~IsEntryPoint(d))

\* C18: one Eval of a fragment that takes the declaration fallback registers
\* exactly one auxiliary unit for that fragment, so that its declaration is
\* in one compilation unit only of every later run.
C18_OneUnitPerDeclaration ==
  (Returned /\ DeclOnly(in)) =>
    /\ Len(ExtraFiles) = Len(filesBefore) + 1
    /\ Len(ExtraFilePaths) = Len(filesBefore) + 1
    /\ \A d \in DeclLines :
         Cardinality({k \in (Len(filesBefore) + 1)..Len(ExtraFiles) :
                        \E j \in 1..Len(ExtraFiles[k].decls) :
                          ExtraFiles[k].decls[j] = d}) <= 1

\* The nodes this Eval has added to the body.
Committed == SubSeq(body, Len(bodyBefore) + 1, Len(body))

\* Every line of the text is an expression or an assignment.
SimpleLinesOnly(text) ==
  \A i \in 1..Len(text) : text[i] \in ExprLines \cup AssignLines

\* C19: the nodes a successful Eval commits are in the order of the lines of
\* the fragment they come from; for an assignment line followed by a pure
\* expression line the committed statement precedes the committed printer
\* call.
C19_CommittedInFragmentOrder ==
  (Returned /\ RanClean /\ ret.err = NoErr /\ SimpleLinesOnly(in)) =>
    /\ Len(Committed) = Len(in)
    /\ \A i \in 1..Len(Committed) : Committed[i].text = <<in[i]>>
    /\ \A i \in 1..(Len(in) - 1) :
         (in[i] \in AssignLines /\ isPureExpr(in[i + 1])) =>
           /\ Committed[i].kind = "assign"
           /\ Committed[i + 1].kind = "print"

\* C20: while separateEvalStmt goes through the lines of a fragment the
\* brace-depth counter is never negative; a one-line statement ending with
\* "}", such as the assignment of a composite literal, and an empty line
\* leave the depth at zero.
C20_DepthNeverNegative ==
  (pc # "idle" /\ pc # "included") =>
    \A i \in 1..Len(classified.depths) :
      /\ classified.depths[i] >= 0
      /\ (DepthBefore(i) = 0 /\ in[i] \in CompositeLines \cup BlankLines)
           => classified.depths[i] = 0

\* C21: for every fragment the scan of a parenthesised argument block of an
\* import or meta-command reads only lines of the fragment and ends: when
\* no later line contains ")", also when the opening line is the last one,
\* Eval returns normally and does not index past the last line.
C21_BlockScanStaysInFragment ==
  /\ pc # "panic"
  /\ \A k \in 1..Len(scanned) : scanned[k] \in 1..Len(inLines)

====
